---- MODULE Spec2Model ----
(***************************************************************************)
(* The real-time broadcast gateway of ChurchConnect: the three websocket   *)
(* consumers of common/consumers.py (notifications, chat, event updates),  *)
(* the channel-layer groups they join, and the task that publishes into a  *)
(* notifications group from outside any connection (common/tasks.py).      *)
(*                                                                         *)
(* Every consumer handles one message at a time.  A handler is split at    *)
(* its awaits, so that handlers of other connections and external          *)
(* publishes interleave where the event loop lets them.                    *)
(***************************************************************************)
EXTENDS Integers, Sequences, FiniteSets, TLC

\* ------------------------------------------------------------------ bounds
\* what the environment does over a run: connection attempts, inbound frames,
\* task runs and store outages, taken together
MaxOps == 3

\* two connections: a sender and a second member, a leaver and a joiner
Conns == {1, 2}

\* ------------------------------------------------------------- identities
\* primary keys of the users of the store
UserIds == {1, 2, 3}

\* scope['user'] as AuthMiddlewareStack sets it: AnonymousUser or a User
AnonymousUser == [auth |-> FALSE, id |-> 0]

\* user.get_full_name()
get_full_name(uid) == <<"name", uid>>

\* ------------------------------------------------------- text conversions
DigitChars == <<"0", "1", "2", "3", "4", "5", "6", "7", "8", "9">>

IsDigit(ch) == \E i \in 1..Len(DigitChars) : DigitChars[i] = ch

DigitVal(ch) == (CHOOSE i \in 1..Len(DigitChars) : DigitChars[i] = ch) - 1

\* str(n) of a non-negative integer: its decimal digits
RECURSIVE Str(_)
Str(n) == IF n < 10 THEN <<DigitChars[n + 1]>>
          ELSE Str(n \div 10) \o <<DigitChars[(n % 10) + 1]>>

RECURSIVE DigitsVal(_)
DigitsVal(tok) == IF tok = <<>> THEN 0
                  ELSE 10 * DigitsVal(SubSeq(tok, 1, Len(tok) - 1)) + DigitVal(tok[Len(tok)])

\* the integer a key lookup makes of a route token; ok = FALSE is ValueError
IntOf(tok) == IF tok # <<>> /\ \A i \in 1..Len(tok) : IsDigit(tok[i])
              THEN [ok |-> TRUE, val |-> DigitsVal(tok)]
              ELSE [ok |-> FALSE, val |-> 0]

\* a connection attempt: the \w+ token of the route, as a character sequence,
\* and the user of the scope
Attempt(tok, user) == [token |-> tok, user |-> user]

User(u) == [auth |-> TRUE, id |-> u]

\* the attempts tried on each route family
AttemptsOf(kind) ==
    IF kind = "notifications"
    THEN {Attempt(<<"1">>, AnonymousUser), Attempt(<<"1">>, User(1)), Attempt(<<"2">>, User(2)),
          Attempt(<<"1">>, User(2)), Attempt(<<"0", "1">>, User(1))}
    ELSE IF kind = "chat"
    THEN {Attempt(<<"1">>, AnonymousUser), Attempt(<<"1">>, User(1)), Attempt(<<"1">>, User(2)),
          Attempt(<<"1">>, User(3)), Attempt(<<"x">>, User(1))}
    ELSE {Attempt(<<"1">>, AnonymousUser), Attempt(<<"1">>, User(1)),
          Attempt(<<"7">>, AnonymousUser), Attempt(<<"x">>, AnonymousUser)}

\* ----------------------------------------------------------- inbound frames
\* text_data as json.loads sees it: not JSON, a JSON array, or a JSON object
\* whose values are strings (a name, or a text as a character sequence) or numbers
Invalid == [json |-> "invalid"]

\* a JSON value that is no object: json.loads gives a list
Array == [json |-> "array"]

Object(o) == [json |-> "object", obj |-> o]

JName(n) == [t |-> "str", name |-> n]

JText(chars) == [t |-> "str", chars |-> chars]

JNum(n) == [t |-> "num", n |-> n]

\* data.get(key, default)
Get(o, key, default) == IF key \in DOMAIN o THEN o[key] ELSE default

Whitespace == {" ", "\t", "\n"}

\* no stripping
strip_none(chars) == chars

\* str.strip()
RECURSIVE strip(_)
strip(chars) ==
    IF chars = <<>> THEN <<>>
    ELSE IF Head(chars) \in Whitespace THEN strip(Tail(chars))
    ELSE IF chars[Len(chars)] \in Whitespace THEN strip(SubSeq(chars, 1, Len(chars) - 1))
    ELSE chars

\* the frames clients send on each route family
FramesOf(kind) ==
    IF kind = "notifications"
    THEN {Invalid,
          Object([type |-> JName("mark_read"), notification_id |-> JNum(1)]),
          Object([type |-> JName("mark_read"), notification_id |-> JNum(2)]),
          Object([type |-> JName("mark_read"), notification_id |-> JNum(9)]),
          Object([type |-> JName("mark_read"), notification_id |-> JText(<<"x">>)]),
          Array}
    ELSE IF kind = "chat"
    THEN {Invalid,
          Object([type |-> JName("message")]),
          Object([message |-> JText(<<" ", "\t">>)]),
          Object([message |-> JText(<<" ", "a">>)])}
    ELSE {Invalid, Object([type |-> JName("ping")])}

RoomKinds == {"notifications", "chat", "event"}

\* the group-name prefix of a route family
RoomKind(family) == IF family = "events" THEN "event" ELSE family

\* f'notifications_{user_id}', f'chat_{group_id}', f'event_{event_id}'
room_group_name(kind, tok) == <<kind, "_">> \o tok

\* ------------------------------------------------------------------ store
\* the columns of community.GroupMember
GroupMemberFields == {"id", "group", "user", "role", "joined_at"}

\* a GroupMember row: one value per key a lookup can name
GroupMemberRow(fields, uid, gid) ==
    IF "is_active" \in fields
    THEN [user_id |-> uid, group_id |-> gid, is_active |-> TRUE]
    ELSE [user_id |-> uid, group_id |-> gid]

\* the membership table: users 1 and 2 are members of group 1, user 3 of no group
GroupMemberTable(fields) == {GroupMemberRow(fields, 1, 1), GroupMemberRow(fields, 2, 1)}

\* events.Event rows by primary key, as the stats get_event_stats reads of them
EventRows == [e \in {1} |-> [total_rsvps |-> 2, total_checked_in |-> 1,
                             spots_remaining |-> 3, is_full |-> FALSE]]

\* the empty dict
EmptyStats == [k \in {} |-> 0]

\* notification.Notification rows by primary key: recipient, is_read, updated_at
NotificationRows == [n \in {1, 2} |-> [recipient |-> n, is_read |-> FALSE, updated_at |-> 0]]

VARIABLES
    phase,          \* connection -> Idle, Connecting, Authorizing, Joined, Closed
    pc,             \* connection -> where its consumer stands
    scope,          \* connection -> route kind, route token, scope['user']
    appq,           \* connection -> events the server queued for the consumer
    chq,            \* connection -> channel-layer messages queued for the consumer
    sent,           \* connection -> payloads written to the client, in order
    groups,         \* the channel layer's groups: pairs <<group name, connection>>
    publog,         \* history: every group_send, with the members at the call
                    \* and those of them still inside connect
    gmFields,       \* the columns GroupMember lookups resolve against
    gmRecords,      \* the rows of GroupMember
    notifications,  \* the rows of Notification
    chatMessages,   \* the rows of ChatMessage, in creation order
    dbUp,           \* the store answers
    budget,         \* what the environment may still do
    family,         \* the route family the connections of this run use
    locals,         \* connection -> what its handler holds across an await
    accepted,       \* connection -> accept() was called on it
    handled,        \* history: connection -> the frames its receive handler took
    faults,         \* history: the connections whose handler met the store away
    returned        \* history: what each run of the notification task returned

vars == <<phase, pc, scope, appq, chq, sent, groups, publog, gmFields, gmRecords,
          notifications, chatMessages, dbUp, budget, family, locals, accepted, handled, faults,
          returned>>

\* the tables, and what a run fixes at its start
storeVars == <<gmFields, gmRecords, notifications, chatMessages, family>>

NoScope == [kind |-> "none", token |-> <<>>, user |-> AnonymousUser]

Room(c) == room_group_name(RoomKind(scope[c].kind), scope[c].token)

\* the channels of a group
Members(room) == {c \in Conns : <<room, c>> \in groups}

Disconnect == [type |-> "websocket.disconnect"]

Receive(frame) == [type |-> "websocket.receive", frame |-> frame]

NoLocals == [id |-> 0, timestamp |-> <<>>]

\* None, where a key is absent
None == [t |-> "null"]

\* the columns of notification.Notification that the model follows
NotificationColumns == {"recipient", "is_read", "updated_at"}

InitCommon ==
    /\ phase = [c \in Conns |-> "Idle"]
    /\ pc = [c \in Conns |-> "none"]
    /\ scope = [c \in Conns |-> NoScope]
    /\ appq = [c \in Conns |-> <<>>]
    /\ chq = [c \in Conns |-> <<>>]
    /\ sent = [c \in Conns |-> <<>>]
    /\ groups = {}
    /\ publog = {}
    /\ notifications = NotificationRows
    /\ chatMessages = <<>>
    /\ dbUp = TRUE
    /\ budget = MaxOps
    /\ locals = [c \in Conns |-> NoLocals]
    /\ accepted = [c \in Conns |-> FALSE]
    /\ handled = [c \in Conns |-> <<>>]
    /\ faults = {}
    /\ returned = {}

\* the program: a run's connections use one route family, since consumers of
\* different families share no group and no table
Init ==
    /\ InitCommon
    /\ family \in {"notifications", "chat", "events"}
    /\ gmFields = GroupMemberFields
    /\ gmRecords = GroupMemberTable(gmFields)

\* the chat consumer against a GroupMember that carries the is_active column
\* its lookup names
InitChat ==
    /\ InitCommon
    /\ family = "chat"
    /\ gmFields = GroupMemberFields \cup {"is_active"}
    /\ gmRecords = GroupMemberTable(gmFields)

\* ---------------------------------------------------------- channel layer
\* a join that writes the room's member set anew
group_add_replacing(room, c) == groups' = {g \in groups : g[1] # room} \cup {<<room, c>>}

\* channel_layer.group_add(group, channel)
group_add(room, c) == groups' = groups \cup {<<room, c>>}

\* channel_layer.group_discard(group, channel)
group_discard(room, c) == groups' = groups \ {<<room, c>>}

\* the handshake of c is under way or done, and the socket not yet closed;
\* what is queued for a consumer whose socket closed is written to nobody,
\* and is left out
SocketOpen(c) == phase[c] \in {"Authorizing", "Joined"}

\* a group name that leaves the room's id out
Recipients_any(room) == {c \in Conns : \E g \in groups : g[2] = c}

\* the consumer of c is inside its connect handler
InConnect(c) == pc[c] \in {"connect", "n_accept", "c_accept", "e_accept", "e_stats"}

\* the channels a group_send reaches: the group's members at the call
Recipients(room) == Members(room)

\* channel_layer.group_send(group, message), called by connection `by` (0: a task)
group_send(room, msg, by) ==
    LET id == Cardinality(publog) + 1 IN
    /\ chq' = [c \in Conns |-> IF c \in Recipients(room) /\ SocketOpen(c)
                                THEN Append(chq[c], [pub |-> id, msg |-> msg])
                                ELSE chq[c]]
    /\ publog' = publog \cup {[id |-> id, room |-> room, msg |-> msg,
                               members |-> Members(room),
                               joining |-> {c \in Members(room) : InConnect(c)},
                               by |-> by]}

\* a text frame reaches the client
deliver(c, pub, payload) ==
    sent' = [sent EXCEPT ![c] = Append(@, [pub |-> pub, data |-> payload])]

\* self.send(text_data=json.dumps(payload)); pub: the group_send it relays, or 0
\* a frame written after the socket closed reaches nobody
send(c, pub, payload) ==
    IF phase[c] = "Joined" THEN deliver(c, pub, payload) ELSE UNCHANGED sent

\* self.close() before accept: the handshake is refused, the server then
\* tells the consumer websocket.disconnect
close(c) ==
    /\ phase' = [phase EXCEPT ![c] = "Closed"]
    /\ pc' = [pc EXCEPT ![c] = "none"]
    /\ appq' = [appq EXCEPT ![c] = Append(@, Disconnect)]

\* the group_add moved before the checks of connect
reject_after_join(c) == close(c) /\ groups' = groups \cup {<<Room(c), c>>}

\* connect gives up: await self.close(); return
reject(c) == close(c) /\ UNCHANGED groups

\* an exception that takes the whole server process down: every socket closes
crash_process(c) ==
    /\ phase' = [d \in Conns |-> IF phase[d] = "Idle" THEN "Idle" ELSE "Closed"]
    /\ pc' = [pc EXCEPT ![c] = "dead"]
    /\ chq' = [d \in Conns |-> <<>>]

\* an exception leaves a handler: the consumer ends there, its disconnect
\* handler never runs, and the server closes the socket
crash(c) ==
    /\ phase' = [phase EXCEPT ![c] = "Closed"]
    /\ pc' = [pc EXCEPT ![c] = "dead"]
    /\ chq' = [chq EXCEPT ![c] = <<>>]

\* a handler returns: its event leaves the queue
return(c) ==
    /\ appq' = [appq EXCEPT ![c] = Tail(@)]
    /\ pc' = [pc EXCEPT ![c] = "none"]

InvalidJSON == [type |-> "error", message |-> "Invalid JSON"]

\* the consumer of c is between handlers and takes the next queued event
Ready(c) == pc[c] = "none"

\* the head of the server's queue taken while a handler of the consumer runs
TakesApp_concurrent(c, type) == appq[c] # <<>> /\ Head(appq[c]).type = type

\* the consumer takes the head of the server's queue
TakesApp(c, type) == Ready(c) /\ appq[c] # <<>> /\ Head(appq[c]).type = type

\* group messages handled while another handler of the consumer is running
TakesGroup_concurrent(c, kind) == chq[c] # <<>> /\ scope[c].kind = kind

\* the consumer takes the head of its channel-layer queue
TakesGroup(c, kind) == Ready(c) /\ chq[c] # <<>> /\ scope[c].kind = kind

\* ------------------------------------------------------------ environment
\* one more thing the environment does
Spend == budget > 0 /\ budget' = budget - 1

\* a client opens a websocket on one of the three routes (ChurchConnect/routing.py)
Open(c) ==
    /\ phase[c] = "Idle"
    /\ \A d \in Conns : d < c => phase[d] # "Idle"
    /\ Spend
    /\ \E a \in AttemptsOf(family) :
          scope' = [scope EXCEPT ![c] = [kind |-> family, token |-> a.token, user |-> a.user]]
    /\ phase' = [phase EXCEPT ![c] = "Connecting"]
    /\ pc' = [pc EXCEPT ![c] = "connect"]
    /\ UNCHANGED <<appq, chq, sent, groups, publog, storeVars, dbUp, locals, accepted, handled, faults, returned>>

\* the client, or the network, closes an accepted websocket
ClientClose(c) ==
    /\ phase[c] = "Joined"
    /\ phase' = [phase EXCEPT ![c] = "Closed"]
    /\ appq' = [appq EXCEPT ![c] = Append(@, Disconnect)]
    /\ chq' = [chq EXCEPT ![c] = <<>>]
    /\ UNCHANGED <<pc, scope, sent, groups, publog, storeVars, dbUp, budget, locals, accepted, handled, faults, returned>>

\* a client writes a text frame to its accepted websocket
ClientSend(c) ==
    /\ phase[c] = "Joined"
    /\ Spend
    /\ \E f \in FramesOf(scope[c].kind) : appq' = [appq EXCEPT ![c] = Append(@, Receive(f))]
    /\ UNCHANGED <<phase, pc, scope, chq, sent, groups, publog, storeVars, dbUp, locals, accepted, handled, faults, returned>>

\* the store goes away
StoreFails ==
    /\ dbUp
    /\ Spend
    /\ dbUp' = FALSE
    /\ UNCHANGED <<phase, pc, scope, appq, chq, sent, groups, publog, storeVars, locals, accepted, handled, faults, returned>>

\* the store comes back
StoreRecovers ==
    /\ ~dbUp
    /\ dbUp' = TRUE
    /\ UNCHANGED <<phase, pc, scope, appq, chq, sent, groups, publog, storeVars, budget, locals, accepted, handled, faults, returned>>

\* ------------------------------------------------- NotificationConsumer
\* the owner check made on numbers: the route's user_id read as an int
own_notifications_numeric(user, user_id) ==
    IntOf(user_id).ok /\ IntOf(user_id).val = user.id

\* the owner check left out
own_notifications_any(user, user_id) == TRUE

\* str(user.id) != str(self.user_id) fails: the route names the user
own_notifications(user, user_id) == Str(user.id) = user_id

\* connect, up to the group_add
NotifConnect(c) ==
    /\ scope[c].kind = "notifications" /\ pc[c] = "connect"
    /\ LET user == scope[c].user IN
       IF ~user.auth
       THEN reject(c)
       ELSE IF ~own_notifications(user, scope[c].token)
       THEN reject(c)
       ELSE /\ group_add(Room(c), c)
            /\ phase' = [phase EXCEPT ![c] = "Authorizing"]
            /\ pc' = [pc EXCEPT ![c] = "n_accept"]
            /\ UNCHANGED appq
    /\ UNCHANGED <<scope, chq, sent, publog, storeVars, dbUp, budget, locals, accepted, handled, faults, returned>>

\* connect, from accept(): the welcome
NotifAccept(c) ==
    /\ pc[c] = "n_accept"
    /\ phase' = [phase EXCEPT ![c] = "Joined"]
    /\ accepted' = [accepted EXCEPT ![c] = TRUE]
    /\ deliver(c, 0, [type |-> "connection_established"])
    /\ pc' = [pc EXCEPT ![c] = "none"]
    /\ UNCHANGED <<scope, appq, chq, groups, publog, storeVars, dbUp, budget, locals, handled, faults, returned>>

NotifDisconnect(c) ==
    /\ scope[c].kind = "notifications" /\ TakesApp(c, "websocket.disconnect")
    /\ group_discard(Room(c), c)
    /\ appq' = [appq EXCEPT ![c] = Tail(@)]
    /\ pc' = [pc EXCEPT ![c] = "done"]
    /\ UNCHANGED <<phase, scope, chq, sent, publog, storeVars, dbUp, budget, locals, accepted, handled, faults, returned>>

\* notification_message: relay a group message to the client
NotifMessage(c) ==
    /\ TakesGroup(c, "notifications")
    /\ LET m == Head(chq[c]) IN
       send(c, m.pub, [type |-> "notification", notification |-> m.msg.notification])
    /\ chq' = [chq EXCEPT ![c] = Tail(@)]
    /\ UNCHANGED <<phase, pc, scope, appq, groups, publog, storeVars, dbUp, budget, locals, accepted, handled, faults, returned>>

\* notification.read = True; notification.save(): the instance gets an
\* attribute, and save writes the instance's columns
SavedNotification(row) ==
    LET instance == [k \in DOMAIN row \cup {"read"} |-> IF k = "read" THEN TRUE ELSE row[k]]
    IN  [k \in NotificationColumns |-> IF k = "updated_at" THEN instance[k] + 1 ELSE instance[k]]

\* the primary key a lookup makes of a JSON value; ok = FALSE is ValueError
KeyOf(value) ==
    IF value.t = "num" THEN [ok |-> TRUE, val |-> value.n]
    ELSE IF value.t = "str" THEN IntOf(value.chars)
    ELSE [ok |-> TRUE, val |-> 0]

\* Notification.objects.get(id=notification_id) finds a row
NotificationFound(notification_id) ==
    /\ notification_id.t # "null"
    /\ KeyOf(notification_id).val \in DOMAIN notifications

\* Notification.objects.get(id=notification_id): ValueError for an id that is
\* no number, OperationalError when the store is away, DoesNotExist for no row
notification_get(notification_id) ==
    IF ~dbUp THEN [raised |-> TRUE, exc |-> "OperationalError"]
    ELSE IF ~KeyOf(notification_id).ok THEN [raised |-> TRUE, exc |-> "ValueError"]
    ELSE IF ~NotificationFound(notification_id) THEN [raised |-> TRUE, exc |-> "DoesNotExist"]
    ELSE [raised |-> FALSE, exc |-> "none"]

\* the lookup without its except
mark_notification_read_uncaught(notification_id) == notification_get(notification_id)

\* mark_notification_read: try: get, set, save; except Notification.DoesNotExist
mark_notification_read(notification_id) ==
    LET got == notification_get(notification_id) IN
    IF got.raised /\ got.exc = "DoesNotExist" THEN [raised |-> FALSE, exc |-> "DoesNotExist"]
    ELSE got

\* receive, with mark_notification_read
NotifReceive(c) ==
    /\ scope[c].kind = "notifications" /\ TakesApp(c, "websocket.receive")
    /\ faults' = IF Head(appq[c]).frame.json = "object" /\ ~dbUp THEN faults \cup {c} ELSE faults
    /\ handled' = [handled EXCEPT ![c] = Append(@, Head(appq[c]).frame)]
    /\ LET f == Head(appq[c]).frame
           notification_id == Get(f.obj, "notification_id", None)
       IN
       IF f.json = "invalid"
       THEN return(c) /\ send(c, 0, InvalidJSON) /\ UNCHANGED <<phase, chq, notifications>>
       ELSE IF f.json # "object"
       THEN crash(c) /\ UNCHANGED <<appq, sent, notifications>>
       ELSE IF Get(f.obj, "type", JName("unknown")) # JName("mark_read")
       THEN return(c) /\ UNCHANGED <<phase, chq, sent, notifications>>
       ELSE IF mark_notification_read(notification_id).raised
       THEN crash(c) /\ UNCHANGED <<appq, sent, notifications>>
       ELSE IF mark_notification_read(notification_id).exc = "DoesNotExist"
       THEN return(c) /\ UNCHANGED <<phase, chq, sent, notifications>>
       ELSE /\ notifications' = [notifications EXCEPT
                                    ![KeyOf(notification_id).val] = SavedNotification(@)]
            /\ return(c)
            /\ UNCHANGED <<phase, chq, sent>>
    /\ UNCHANGED <<scope, groups, publog, gmFields, gmRecords, chatMessages, family,
                   dbUp, budget, locals, accepted, returned>>

\* ------------------------------------------------------------ ChatConsumer
\* check_group_membership: the lookup names is_active; a lookup that cannot be
\* built or run raises, and the bare except answers False
\* GroupMember.objects.filter(user_id=, group_id=, is_active=True).exists():
\* FieldError for a key that is no column, ValueError for a group_id that is no
\* number, OperationalError when the store is away
membership_lookup(user_id, group_id) ==
    IF "is_active" \notin gmFields \/ ~IntOf(group_id).ok \/ ~dbUp
    THEN [raised |-> TRUE, value |-> FALSE]
    ELSE [raised |-> FALSE,
          value |-> \E r \in gmRecords : /\ r.user_id = user_id
                                         /\ r.group_id = IntOf(group_id).val
                                         /\ r.is_active]

\* the lookup without its try
check_group_membership_raising(user_id, group_id) == membership_lookup(user_id, group_id)

\* check_group_membership: try: return the lookup; except: return False
check_group_membership(user_id, group_id) ==
    LET found == membership_lookup(user_id, group_id) IN
    IF found.raised THEN [raised |-> FALSE, value |-> FALSE] ELSE found

\* connect, up to the group_add
ChatConnect(c) ==
    /\ scope[c].kind = "chat" /\ pc[c] = "connect"
    /\ faults' = IF scope[c].user.auth /\ ~dbUp THEN faults \cup {c} ELSE faults
    /\ LET user == scope[c].user IN
       IF ~user.auth
       THEN reject(c) /\ UNCHANGED chq
       ELSE IF check_group_membership(user.id, scope[c].token).raised
       THEN crash(c) /\ UNCHANGED <<appq, groups>>
       ELSE IF ~check_group_membership(user.id, scope[c].token).value
       THEN reject(c) /\ UNCHANGED chq
       ELSE /\ group_add(Room(c), c)
            /\ phase' = [phase EXCEPT ![c] = "Authorizing"]
            /\ pc' = [pc EXCEPT ![c] = "c_accept"]
            /\ UNCHANGED <<appq, chq>>
    /\ UNCHANGED <<scope, sent, publog, storeVars, dbUp, budget, locals, accepted, handled, returned>>

\* connect, from accept(): tell the group
ChatAccept(c) ==
    /\ pc[c] = "c_accept"
    /\ phase' = [phase EXCEPT ![c] = "Joined"]
    /\ accepted' = [accepted EXCEPT ![c] = TRUE]
    /\ group_send(Room(c), [type |-> "user_joined", user_id |-> scope[c].user.id,
                            username |-> get_full_name(scope[c].user.id)], c)
    /\ pc' = [pc EXCEPT ![c] = "none"]
    /\ UNCHANGED <<scope, appq, sent, groups, storeVars, dbUp, budget, locals, handled, faults, returned>>

\* disconnect, up to the group_send
ChatDisconnect(c) ==
    /\ scope[c].kind = "chat" /\ TakesApp(c, "websocket.disconnect")
    /\ IF scope[c].user.auth
       THEN group_send(Room(c), [type |-> "user_left", user_id |-> scope[c].user.id,
                                 username |-> get_full_name(scope[c].user.id)], c)
       ELSE UNCHANGED <<chq, publog>>
    /\ appq' = [appq EXCEPT ![c] = Tail(@)]
    /\ pc' = [pc EXCEPT ![c] = "c_discard"]
    /\ UNCHANGED <<phase, scope, sent, groups, storeVars, dbUp, budget, locals, accepted, handled, faults, returned>>

\* disconnect, when the channel layer is away: group_send raises, the
\* exception leaves the handler, and the group_discard after it is not reached
ChatDisconnectFails(c) ==
    /\ scope[c].kind = "chat" /\ TakesApp(c, "websocket.disconnect")
    /\ scope[c].user.auth
    /\ Spend
    /\ appq' = [appq EXCEPT ![c] = Tail(@)]
    /\ pc' = [pc EXCEPT ![c] = "d_raised"]
    /\ UNCHANGED <<phase, scope, chq, sent, groups, publog, storeVars, dbUp, locals, accepted, handled, faults, returned>>

\* disconnect, the group_discard
ChatDiscard(c) ==
    /\ pc[c] = "c_discard"
    /\ group_discard(Room(c), c)
    /\ pc' = [pc EXCEPT ![c] = "done"]
    /\ UNCHANGED <<phase, scope, appq, chq, sent, publog, storeVars, dbUp, budget, locals, accepted, handled, faults, returned>>

\* chat_message.created_at.isoformat()
isoformat(created_at) == Str(created_at)

\* a row that keeps the stripped text
NewChatMessage_stripped(user_id, group_id, message) ==
    [id |-> Len(chatMessages) + 1, group_id |-> IntOf(group_id).val, sender_id |-> user_id,
     message |-> strip(message), created_at |-> Len(chatMessages) + 1]

\* the row made with save_message's first two arguments exchanged
NewChatMessage_swapped(user_id, group_id, message) ==
    [id |-> Len(chatMessages) + 1, group_id |-> user_id, sender_id |-> IntOf(group_id).val,
     message |-> message, created_at |-> Len(chatMessages) + 1]

\* the row ChatMessage.objects.create makes
NewChatMessage(user_id, group_id, message) ==
    [id |-> Len(chatMessages) + 1, group_id |-> IntOf(group_id).val, sender_id |-> user_id,
     message |-> message, created_at |-> Len(chatMessages) + 1]

\* receive, up to the end of save_message
ChatReceive(c) ==
    /\ scope[c].kind = "chat" /\ TakesApp(c, "websocket.receive")
    /\ faults' = IF Head(appq[c]).frame.json = "object" /\ ~dbUp THEN faults \cup {c} ELSE faults
    /\ handled' = [handled EXCEPT ![c] = Append(@, Head(appq[c]).frame)]
    /\ LET f == Head(appq[c]).frame
           message == Get(f.obj, "message", JText(<<>>))
           row == NewChatMessage(scope[c].user.id, scope[c].token, message.chars)
       IN
       IF f.json = "invalid"
       THEN return(c) /\ send(c, 0, InvalidJSON) /\ UNCHANGED <<phase, chq, chatMessages, locals>>
       ELSE IF f.json # "object" \/ message.t # "str"
       THEN crash(c) /\ UNCHANGED <<appq, sent, chatMessages, locals>>
       ELSE IF strip(message.chars) = <<>>
       THEN return(c) /\ UNCHANGED <<phase, chq, sent, chatMessages, locals>>
       ELSE IF ~dbUp \/ ~IntOf(scope[c].token).ok
       THEN crash(c) /\ UNCHANGED <<appq, sent, chatMessages, locals>>
       ELSE /\ chatMessages' = Append(chatMessages, row)
            /\ locals' = [locals EXCEPT ![c] = [id |-> row.id,
                                                timestamp |-> isoformat(row.created_at)]]
            /\ pc' = [pc EXCEPT ![c] = "c_publish"]
            /\ UNCHANGED <<phase, appq, chq, sent>>
    /\ UNCHANGED <<scope, groups, publog, gmFields, gmRecords, notifications, family,
                   dbUp, budget, accepted, returned>>

\* receive, the group_send after save_message
ChatPublish(c) ==
    /\ pc[c] = "c_publish"
    /\ LET message == Get(Head(appq[c]).frame.obj, "message", JText(<<>>)) IN
       group_send(Room(c),
                  [type |-> "chat_message",
                   message |-> [id |-> locals[c].id,
                                user_id |-> scope[c].user.id,
                                username |-> get_full_name(scope[c].user.id),
                                message |-> message.chars,
                                timestamp |-> locals[c].timestamp]], c)
    /\ return(c)
    /\ locals' = [locals EXCEPT ![c] = NoLocals]
    /\ UNCHANGED <<phase, scope, sent, groups, storeVars, dbUp, budget, accepted, handled, faults, returned>>

\* chat_message, user_joined, user_left: relay a group message to the client
ChatRelay(c) ==
    /\ TakesGroup(c, "chat")
    /\ LET m == Head(chq[c]) IN
       IF m.msg.type = "chat_message"
       THEN send(c, m.pub, [type |-> "message", message |-> m.msg.message])
       ELSE send(c, m.pub, [type |-> m.msg.type, user_id |-> m.msg.user_id,
                            username |-> m.msg.username])
    /\ chq' = [chq EXCEPT ![c] = Tail(@)]
    /\ UNCHANGED <<phase, pc, scope, appq, groups, publog, storeVars, dbUp, budget, locals, accepted, handled, faults, returned>>

\* ----------------------------------------------------- EventUpdateConsumer
\* connect, the group_add
EventConnect(c) ==
    /\ scope[c].kind = "events" /\ pc[c] = "connect"
    /\ group_add(Room(c), c)
    /\ phase' = [phase EXCEPT ![c] = "Authorizing"]
    /\ pc' = [pc EXCEPT ![c] = "e_accept"]
    /\ UNCHANGED <<scope, appq, chq, sent, publog, storeVars, dbUp, budget, locals, accepted, handled, faults, returned>>

\* connect, accept()
EventAccept(c) ==
    /\ pc[c] = "e_accept"
    /\ phase' = [phase EXCEPT ![c] = "Joined"]
    /\ accepted' = [accepted EXCEPT ![c] = TRUE]
    /\ pc' = [pc EXCEPT ![c] = "e_stats"]
    /\ UNCHANGED <<scope, appq, chq, sent, groups, publog, storeVars, dbUp, budget, locals, handled, faults, returned>>

\* get_event_stats: Event.objects.get(id=event_id) raises ValueError for an id
\* that is no number and OperationalError when the store is away; only
\* Event.DoesNotExist is caught, and answers {}
get_event_stats(event_id) ==
    IF ~dbUp \/ ~IntOf(event_id).ok
    THEN [raised |-> TRUE, stats |-> EmptyStats]
    ELSE IF IntOf(event_id).val \notin DOMAIN EventRows
    THEN [raised |-> FALSE, stats |-> EmptyStats]
    ELSE [raised |-> FALSE, stats |-> EventRows[IntOf(event_id).val]]

\* connect, from get_event_stats: the snapshot
EventStats(c) ==
    /\ pc[c] = "e_stats"
    /\ faults' = IF ~dbUp THEN faults \cup {c} ELSE faults
    /\ LET got == get_event_stats(scope[c].token) IN
       IF got.raised
       THEN crash(c) /\ UNCHANGED sent
       ELSE /\ send(c, 0, [type |-> "event_stats", stats |-> got.stats])
            /\ pc' = [pc EXCEPT ![c] = "none"]
            /\ UNCHANGED <<phase, chq>>
    /\ UNCHANGED <<scope, appq, groups, publog, storeVars, dbUp, budget, locals, accepted, handled, returned>>

EventDisconnect(c) ==
    /\ scope[c].kind = "events" /\ TakesApp(c, "websocket.disconnect")
    /\ group_discard(Room(c), c)
    /\ appq' = [appq EXCEPT ![c] = Tail(@)]
    /\ pc' = [pc EXCEPT ![c] = "done"]
    /\ UNCHANGED <<phase, scope, chq, sent, publog, storeVars, dbUp, budget, locals, accepted, handled, faults, returned>>

\* event_update: relay a group message to the client
EventUpdate(c) ==
    /\ TakesGroup(c, "events")
    /\ LET m == Head(chq[c]) IN
       send(c, m.pub, [type |-> "update", update |-> m.msg.update])
    /\ chq' = [chq EXCEPT ![c] = Tail(@)]
    /\ UNCHANGED <<phase, pc, scope, appq, groups, publog, storeVars, dbUp, budget, locals, accepted, handled, faults, returned>>

\* the consumer defines no receive: AsyncWebsocketConsumer.receive takes the
\* frame and does nothing
EventReceive(c) ==
    /\ scope[c].kind = "events" /\ TakesApp(c, "websocket.receive")
    /\ handled' = [handled EXCEPT ![c] = Append(@, Head(appq[c]).frame)]
    /\ return(c)
    /\ UNCHANGED <<phase, scope, chq, sent, groups, publog, storeVars, dbUp, budget, locals, accepted, faults, returned>>

\* the external task dispatcher publishes an update of an event to its room
publish_event_update(event_id, update) ==
    /\ Spend
    /\ group_send(room_group_name("event", Str(event_id)),
                  [type |-> "event_update", update |-> update], 0)
    /\ UNCHANGED <<phase, pc, scope, appq, sent, groups, storeVars, dbUp, locals, accepted, handled, faults, returned>>

DispatcherRuns == \E e \in {1, 7} : publish_event_update(e, "u")

\* ------------------------------------------------------------------ tasks
\* send_websocket_notification(user_id, notification_data)
\* the task's result whatever the publish did
task_returns_true(raised) == TRUE

\* return True after the publish, return False from except Exception
task_returns(raised) == ~raised

\* the publish raises when the channel layer cannot be reached; the task
\* logs it and returns
send_websocket_notification(user_id, notification_data) ==
    /\ Spend
    /\ \E raised \in BOOLEAN :
          /\ IF raised
                THEN UNCHANGED <<chq, publog>>
                ELSE group_send(room_group_name("notifications", Str(user_id)),
                                [type |-> "notification_message",
                                 notification |-> notification_data], 0)
          /\ returned' = returned \cup
                {[user_id |-> user_id,
                  pub |-> IF raised THEN 0 ELSE Cardinality(publog) + 1,
                  value |-> task_returns(raised)]}
    /\ UNCHANGED <<phase, pc, scope, appq, sent, groups, storeVars, dbUp, locals, accepted, handled, faults>>

TaskRuns == \E u \in UserIds : send_websocket_notification(u, "n")

\* ------------------------------------------------- chat, text messages only
\* what a chat client that writes messages sends: a text, a text with fields
\* naming another sender and another group, or a frame that is no JSON
TextFrames ==
    {Invalid,
     Object([message |-> JText(<<" ", "a">>)]),
     Object([message |-> JText(<<"b">>), user_id |-> JNum(3), group_id |-> JNum(2)])}

ClientSendText(c) ==
    /\ phase[c] = "Joined"
    /\ Spend
    /\ \E f \in TextFrames : appq' = [appq EXCEPT ![c] = Append(@, Receive(f))]
    /\ UNCHANGED <<phase, pc, scope, chq, sent, groups, publog, storeVars, dbUp, locals, accepted, handled, faults, returned>>

NextText ==
    \/ \E c \in Conns : Open(c)
    \/ \E c \in Conns : ClientClose(c)
    \/ \E c \in Conns : ClientSendText(c)
    \/ StoreFails
    \/ StoreRecovers
    \/ \E c \in Conns : ChatConnect(c)
    \/ \E c \in Conns : ChatAccept(c)
    \/ \E c \in Conns : ChatReceive(c)
    \/ \E c \in Conns : ChatPublish(c)
    \/ \E c \in Conns : ChatRelay(c)
    \/ \E c \in Conns : ChatDisconnect(c)
    \/ \E c \in Conns : ChatDisconnectFails(c)
    \/ \E c \in Conns : ChatDiscard(c)

SpecText == InitChat /\ [][NextText]_vars

\* ---------------------------------------------------------- specification
Next ==
    \/ \E c \in Conns : Open(c)
    \/ \E c \in Conns : ClientClose(c)
    \/ \E c \in Conns : ClientSend(c)
    \/ StoreFails
    \/ StoreRecovers
    \/ \E c \in Conns : NotifConnect(c)
    \/ \E c \in Conns : NotifAccept(c)
    \/ \E c \in Conns : NotifDisconnect(c)
    \/ \E c \in Conns : NotifMessage(c)
    \/ \E c \in Conns : NotifReceive(c)
    \/ \E c \in Conns : ChatConnect(c)
    \/ \E c \in Conns : ChatDisconnect(c)
    \/ \E c \in Conns : ChatDisconnectFails(c)
    \/ \E c \in Conns : ChatDiscard(c)
    \/ \E c \in Conns : EventConnect(c)
    \/ \E c \in Conns : EventAccept(c)
    \/ \E c \in Conns : EventStats(c)
    \/ \E c \in Conns : EventDisconnect(c)
    \/ \E c \in Conns : EventUpdate(c)
    \/ \E c \in Conns : EventReceive(c)
    \/ TaskRuns
    \/ DispatcherRuns

Spec == Init /\ [][Next]_vars

\* the chat consumer, once its membership lookup can be built
NextChat ==
    \/ \E c \in Conns : Open(c)
    \/ \E c \in Conns : ClientClose(c)
    \/ \E c \in Conns : ClientSend(c)
    \/ StoreFails
    \/ StoreRecovers
    \/ \E c \in Conns : ChatConnect(c)
    \/ \E c \in Conns : ChatAccept(c)
    \/ \E c \in Conns : ChatReceive(c)
    \/ \E c \in Conns : ChatPublish(c)
    \/ \E c \in Conns : ChatRelay(c)
    \/ \E c \in Conns : ChatDisconnect(c)
    \/ \E c \in Conns : ChatDisconnectFails(c)
    \/ \E c \in Conns : ChatDiscard(c)

SpecChat == InitChat /\ [][NextChat]_vars

\* disconnect called once more on a consumer whose disconnect has returned
DisconnectAgain(c) ==
    /\ pc[c] = "done"
    /\ Spend
    /\ appq' = [appq EXCEPT ![c] = Append(@, Disconnect)]
    /\ pc' = [pc EXCEPT ![c] = "none"]
    /\ UNCHANGED <<phase, scope, chq, sent, groups, publog, storeVars, dbUp, locals, accepted, handled, faults, returned>>

\* the program, with its disconnect handlers open to repeated calls
NextRepeat ==
    \/ Next
    \/ \E c \in Conns : DisconnectAgain(c)

SpecRepeat == Init /\ [][NextRepeat]_vars

\* -------------------------------------------------------------- properties
\* c is a member of some group
InGroup(c) == \E g \in groups : g[2] = c

\* how often the client frames or queued messages q carry publish id
Copies(q, id) == Cardinality({i \in 1..Len(q) : q[i].pub = id})

\* connect has run for c
Attempted(c) == phase[c] \notin {"Idle", "Connecting"}

\* c asks for the notifications of another user than the one it
\* authenticated as: the route's user_id is not the number of the user
Mismatch(c) ==
    /\ scope[c].kind = "notifications"
    /\ scope[c].user.auth
    /\ \/ ~IntOf(scope[c].token).ok
       \/ IntOf(scope[c].token).val # scope[c].user.id

\* C1: a notifications attempt whose authenticated user is not the user of
\* the route is closed by connect and never accepted, and connect leaves
\* the member set of every room as it was; the connection is in no room
\* at any later time either
C1_MismatchRejected ==
    /\ [][\A c \in Conns : (NotifConnect(c) /\ Mismatch(c)) =>
             /\ phase'[c] = "Closed"
             /\ groups' = groups
             /\ accepted' = accepted]_vars
    /\ [](\A c \in Conns : (Mismatch(c) /\ Attempted(c)) =>
             /\ phase[c] = "Closed"
             /\ ~accepted[c]
             /\ ~InGroup(c))

\* user 2 asked for the notifications of user 1, and the attempt is over
C1_Witness ==
    \E c \in Conns : /\ Mismatch(c)
                     /\ scope[c].token = <<"1">> /\ scope[c].user.id = 2
                     /\ phase[c] = "Closed" /\ pc[c] = "done"

\* C2: a notifications or chat attempt without an authenticated user is
\* closed before any group_add: the connection is never accepted, never a
\* member of a group, never among the members a group_send reaches, and
\* nothing is ever written to it or queued for it
C2_UnauthenticatedClosed ==
    \A c \in Conns :
        (scope[c].kind \in {"notifications", "chat"} /\ ~scope[c].user.auth /\ Attempted(c)) =>
            /\ phase[c] = "Closed"
            /\ ~accepted[c]
            /\ ~InGroup(c)
            /\ \A p \in publog : c \notin p.members
            /\ sent[c] = <<>>
            /\ chq[c] = <<>>

\* an anonymous attempt went through connect and disconnect
C2_Witness ==
    \E c \in Conns : /\ scope[c].kind \in {"notifications", "chat"}
                     /\ ~scope[c].user.auth
                     /\ phase[c] = "Closed" /\ pc[c] = "done"

\* the store holds a membership row for the user and the group of the route
HasMembershipRecord(user_id, group_id) ==
    /\ IntOf(group_id).ok
    /\ \E r \in gmRecords : r.user_id = user_id /\ r.group_id = IntOf(group_id).val

\* C3: an authenticated chat attempt, made while the store answers, is
\* registered in its room and accepted if and only if the store holds a
\* membership row for the user and the group
C3_AcceptedIffMember ==
    \A c \in Conns :
        (scope[c].kind = "chat" /\ scope[c].user.auth /\ Attempted(c) /\ c \notin faults) =>
            ((phase[c] = "Authorizing" \/ accepted[c])
                <=> HasMembershipRecord(scope[c].user.id, scope[c].token))

\* the route tokens the routes of a run can carry
Tokens == {a.token : a \in AttemptsOf("notifications") \cup AttemptsOf("chat")}

\* C4: while the store answers, check_group_membership is true exactly for
\* the (user, group) pairs that have a membership row
C4_MembershipCheckExact ==
    dbUp => \A u \in UserIds, tok \in Tokens :
                check_group_membership(u, tok).value <=> HasMembershipRecord(u, tok)

\* C5: when the store is away during the membership check of connect, the
\* attempt is refused the way a non-member's is (closed, the consumer goes
\* on to its disconnect), no exception leaves connect, and no group, no
\* other connection and no table changes
C5_StoreFailureFailsClosed ==
    [][\A c \in Conns : (ChatConnect(c) /\ scope[c].user.auth /\ ~dbUp) =>
          /\ phase'[c] = "Closed"
          /\ pc'[c] = "none"
          /\ appq'[c] = Append(appq[c], Disconnect)
          /\ accepted' = accepted
          /\ groups' = groups
          /\ publog' = publog
          /\ chatMessages' = chatMessages
          /\ \A d \in Conns \ {c} :
                /\ phase'[d] = phase[d] /\ pc'[d] = pc[d] /\ appq'[d] = appq[d]
                /\ chq'[d] = chq[d] /\ sent'[d] = sent[d]]_vars

\* a member's attempt met the store away and was refused, not crashed
C5_Witness ==
    \E c \in faults : /\ scope[c].kind = "chat"
                      /\ HasMembershipRecord(scope[c].user.id, scope[c].token)
                      /\ ~accepted[c]
                      /\ phase[c] = "Closed" /\ pc[c] = "done"

\* connect refused c: the socket closed without an accept
Rejected(c) == Attempted(c) /\ phase[c] = "Closed" /\ ~accepted[c]

\* C6: a refused attempt, through its disconnect step too, is in no group
\* and is the cause of no group_send
C6_RejectedCausesNothing ==
    \A c \in Conns : Rejected(c) =>
        /\ ~InGroup(c)
        /\ \A p \in publog : p.by # c

\* C7: a group_send is queued for, or written to, exactly the connections
\* that were members of the group at the call, once each: a connection that
\* was no member then (it had left, or joins later) never gets it, and a
\* member misses it only because its socket closed
C7_PublishReachesMembersAtCall ==
    \A p \in publog : \A c \in Conns :
        LET n == Copies(sent[c], p.id) + Copies(chq[c], p.id) IN
        /\ c \notin p.members => n = 0
        /\ c \in p.members => (n = 1 \/ (n = 0 /\ phase[c] = "Closed"))

\* a member got the publish, and a connection that joined the same group
\* after the call did not
C7_Witness ==
    \E p \in publog : \E c, d \in Conns :
        /\ c \in p.members /\ Copies(sent[c], p.id) = 1
        /\ d \notin p.members /\ <<p.room, d>> \in groups /\ phase[d] = "Joined"
        /\ Copies(sent[d], p.id) = 0 /\ chq[d] = <<>>

\* the text of a frame is absent, empty or whitespace only
BlankFrame(f) ==
    /\ f.json = "object"
    /\ LET m == Get(f.obj, "message", JText(<<>>)) IN
       m.t = "str" /\ \A i \in 1..Len(m.chars) : m.chars[i] \in Whitespace

\* C8: receive of a chat frame whose text is empty or whitespace creates no
\* ChatMessage row, calls no group_send, writes nothing to any client, and
\* leaves the connection as it was, ready for its next frame
C8_BlankIgnored ==
    [][\A c \in Conns : (ChatReceive(c) /\ BlankFrame(Head(appq[c]).frame)) =>
          /\ chatMessages' = chatMessages
          /\ publog' = publog
          /\ sent' = sent
          /\ chq' = chq
          /\ phase' = phase
          /\ groups' = groups
          /\ pc'[c] = "none"]_vars

\* a Joined connection handled a whitespace-only frame and is still Joined
C8_Witness ==
    \E c \in Conns :
        /\ phase[c] = "Joined" /\ pc[c] = "none" /\ appq[c] = <<>>
        /\ \E i \in 1..Len(handled[c]) :
              /\ BlankFrame(handled[c][i])
              /\ "message" \in DOMAIN handled[c][i].obj
              /\ handled[c][i].obj.message.chars # <<>>

\* the chat_message publishes
ChatEvents == {p \in publog : p.msg.type = "chat_message"}

MarkRead(f, n) ==
    /\ f.json = "object"
    /\ Get(f.obj, "type", JName("unknown")) = JName("mark_read")
    /\ Get(f.obj, "notification_id", None) = JNum(n)

\* C10: once receive has completed for a mark_read frame that names an
\* existing notification, the row's is_read is true
C10_MarkReadSetsIsRead ==
    \A c \in Conns : \A i \in 1..Len(handled[c]) : \A n \in DOMAIN notifications :
        (MarkRead(handled[c][i], n) /\ (i < Len(handled[c]) \/ pc[c] # "dead")) =>
            notifications[n].is_read

\* f is a mark_read frame
IsMarkRead(f) ==
    f.json = "object" /\ Get(f.obj, "type", JName("unknown")) = JName("mark_read")

\* f is a mark_read frame whose id the store can look up, and has no row for
MarkReadMissing(f) ==
    /\ IsMarkRead(f)
    /\ KeyOf(Get(f.obj, "notification_id", None)).ok
    /\ ~NotificationFound(Get(f.obj, "notification_id", None))

ErrorReplies(c) == Cardinality({i \in 1..Len(sent[c]) : sent[c][i].data.type = "error"})

\* the frames that are not JSON among those the consumer of c took
InvalidFrames(c) == Cardinality({i \in 1..Len(handled[c]) : handled[c][i] = Invalid})

\* C12: on every route family, every frame that is not JSON is answered
\* with one Invalid JSON error to its sender, which stays Joined: an open
\* connection between handlers has as many error replies as it sent such
\* frames
C12_InvalidJsonAnswered ==
    \A c \in Conns :
        (phase[c] = "Joined" /\ pc[c] = "none" /\ appq[c] = <<>>) =>
            ErrorReplies(c) = InvalidFrames(c)

\* how often publish p was queued for, or written to, connection c
Got(c, p) == Copies(sent[c], p.id) + Copies(chq[c], p.id)

\* the publishes of one type
EventsOfType(type) == {p \in publog : p.msg.type = type}

C14_LeftOnlyAfterJoin ==
    /\ \A p \in EventsOfType("user_left") :
          /\ accepted[p.by]
          /\ p.msg.user_id = scope[p.by].user.id
          /\ \A c \in p.members \ {p.by} : Got(c, p) = 1 \/ phase[c] = "Closed"
    /\ \A c \in Conns :
          (scope[c].kind = "chat" /\ accepted[c] /\ pc[c] = "done") =>
              Cardinality({p \in EventsOfType("user_left") : p.by = c}) = 1

\* the disconnect handler of c has run, to its end or to an exception
Disconnected(c) == pc[c] \in {"done", "d_raised"}

C16_DisconnectIdempotent ==
    \A c \in Conns :
        /\ Cardinality({p \in EventsOfType("user_left") : p.by = c}) <= 1
        /\ pc[c] = "done" => ~InGroup(c)

\* the snapshot connect sends on a route family
SnapshotType(kind) == IF kind = "notifications" THEN "connection_established" ELSE "event_stats"

\* C17: on a notifications or events connection the snapshot of connect is
\* the first payload written to the client, and is written once: whatever
\* was published to the room since the group_add comes after it
C17_SnapshotFirst ==
    \A c \in Conns :
        scope[c].kind \in {"notifications", "events"} =>
            \A i \in 1..Len(sent[c]) :
                (sent[c][i].data.type = SnapshotType(scope[c].kind)) <=> (i = 1)

\* a notification was published while a member was still inside connect,
\* and the member was written its welcome first and the notification second
C17_Witness ==
    \E p \in EventsOfType("notification_message") : \E c \in p.joining :
        /\ Len(sent[c]) = 2
        /\ sent[c][1].data.type = "connection_established"
        /\ sent[c][2].pub = p.id /\ sent[c][2].data.type = "notification"

\* the route token names no row of Event
NoEvent(tok) == ~IntOf(tok).ok \/ IntOf(tok).val \notin DOMAIN EventRows

\* C18: an events connection whose event id names no event, whatever word
\* the id is, is accepted, is written event_stats with empty stats as long
\* as its socket is open, and its consumer lives on to relay updates
C18_UnknownEventEmptyStats ==
    \A c \in Conns :
        (/\ scope[c].kind = "events" /\ NoEvent(scope[c].token)
         /\ Attempted(c) /\ ~InConnect(c) /\ c \notin faults) =>
            /\ accepted[c]
            /\ pc[c] # "dead"
            /\ phase[c] = "Joined" =>
                  /\ sent[c] # <<>>
                  /\ sent[c][1].data = [type |-> "event_stats", stats |-> EmptyStats]

\* C19: joins of the same room, however their steps interleave, are all
\* kept: every connection whose socket is open past its group_add is a
\* member of its room, once, and of no other; and a publish is queued for
\* or written to each member once
C19_ConcurrentJoinsKept ==
    /\ \A c \in Conns :
          SocketOpen(c) => {g \in groups : g[2] = c} = {<<Room(c), c>>}
    /\ \A p \in publog : \A c \in Conns :
          /\ Got(c, p) <= 1
          /\ (c \in p.members /\ SocketOpen(c)) => Got(c, p) = 1

\* two connections were inside connect on the same room at the same time,
\* a publish made then found both in the room, and each was written it once
C19_Witness ==
    \E p \in publog : \E c, d \in p.joining :
        /\ c # d
        /\ Room(c) = p.room /\ Room(d) = p.room
        /\ Members(p.room) = {c, d}
        /\ Copies(sent[c], p.id) = 1 /\ Copies(sent[d], p.id) = 1

\* C20: a mark_read that the store fails on, being away or being given an id
\* it cannot look up, is swallowed: the consumer that took the frame lives
\* on, so that its next frame is handled
C20_MarkReadFailureSwallowed ==
    \A c \in Conns :
        (/\ scope[c].kind = "notifications"
         /\ handled[c] # <<>>
         /\ IsMarkRead(handled[c][Len(handled[c])])) =>
            pc[c] # "dead"

\* a frame that carries a text to persist
TextFrame(f) == f.json = "object" /\ ~BlankFrame(f) /\ Get(f.obj, "message", JText(<<>>)).t = "str"

Fails(c) == pc[c] \notin {"dead", "d_raised"} /\ pc'[c] \in {"dead", "d_raised"}

\* C22: a step in which the handler of one connection raises changes no
\* other connection (its phase, its consumer's position, its scope, its
\* queues, what it was written, whether it is accepted) and no group
C22_FailureStaysLocal ==
    [][\A c \in Conns : Fails(c) =>
          /\ groups' = groups
          /\ publog' = publog
          /\ \A d \in Conns \ {c} :
                /\ phase'[d] = phase[d] /\ pc'[d] = pc[d] /\ scope'[d] = scope[d]
                /\ appq'[d] = appq[d] /\ chq'[d] = chq[d] /\ sent'[d] = sent[d]
                /\ accepted'[d] = accepted[d]]_vars

\* the handler of one connection raised, and another connection of the same
\* room is Joined, a member of the room, and its consumer idle
C22_Witness ==
    \E c, d \in Conns :
        /\ c # d /\ pc[c] = "dead" /\ handled[c] # <<>>
        /\ phase[d] = "Joined" /\ pc[d] = "none"
        /\ Room(c) = Room(d) /\ <<Room(d), d>> \in groups /\ <<Room(c), c>> \in groups

\* the place of a phase on the path of a connection
Rank(ph) ==
    CASE ph = "Idle" -> 0
      [] ph = "Connecting" -> 1
      [] ph = "Authorizing" -> 2
      [] ph = "Joined" -> 3
      [] ph = "Closed" -> 4

\* C23: no step takes a connection back on the path Connecting,
\* Authorizing, Joined, Closed; and a step taken while a connection is
\* Closed adds it to no group, writes nothing to its client, and has its
\* receive handler take no frame
C23_ClosedIsFinal ==
    [][\A c \in Conns :
          /\ Rank(phase'[c]) >= Rank(phase[c])
          /\ phase[c] = "Closed" =>
                /\ \A g \in groups' : g[2] = c => g \in groups
                /\ sent'[c] = sent[c]
                /\ handled'[c] = handled[c]]_vars

\* the texts the receive handler of c took, in the order it took them
TextsHandled(c) == SelectSeq(handled[c], TextFrame)

\* the chat_message publishes made by the handler of c
EventsBy(c) == {p \in ChatEvents : p.by = c}

\* the handler of the last text c sent has not published: it waits between
\* save and publish, or its save raised
LastUnpublished(c) ==
    /\ pc[c] \in {"c_publish", "dead"}
    /\ handled[c] # <<>> /\ TextFrame(handled[c][Len(handled[c])])

\* C24: the texts one connection sent are persisted and published in the
\* order its handler took them, each handler finishing before the next
\* starts: the i-th text has the i-th row and the i-th publish among those
\* of the connection, and only the last text taken can be without a publish
C24_HandledInOrder ==
    \A c \in Conns :
        LET H == TextsHandled(c)
            n == IF LastUnpublished(c) THEN Len(H) - 1 ELSE Len(H)
        IN
        /\ Cardinality(EventsBy(c)) = n
        /\ \A i \in 1..n : \E p \in EventsBy(c) :
              /\ Cardinality({q \in EventsBy(c) : q.id < p.id}) = i - 1
              /\ Cardinality({q \in EventsBy(c) : q.msg.message.id < p.msg.message.id}) = i - 1
              /\ p.msg.message.message = H[i].obj.message.chars
              /\ p.msg.message.id \in 1..Len(chatMessages)
              /\ chatMessages[p.msg.message.id].message = H[i].obj.message.chars
        /\ pc[c] = "c_publish" =>
              /\ Head(appq[c]).frame = handled[c][Len(handled[c])]
              /\ chatMessages[locals[c].id].message = H[Len(H)].obj.message.chars

\* one connection sent two different texts and both are persisted and
\* published, the first before the second
C24_Witness ==
    \E c \in Conns :
        /\ Len(TextsHandled(c)) = 2 /\ pc[c] = "none"
        /\ TextsHandled(c)[1] # TextsHandled(c)[2]
        /\ Cardinality(EventsBy(c)) = 2

TaskEvents == {p \in publog : p.msg.type = "notification_message"}

\* the frames of publish p written to the client of c
FramesOfPublish(c, p) == {i \in 1..Len(sent[c]) : sent[c][i].pub = p.id}

\* C26: a run of send_websocket_notification(user_id, data) that returned
\* true made one publish, to the notifications group of user_id and from
\* no connection; a run whose publish raised returned false and published
\* nothing; every task publish belongs to a run that returned true; a
\* connection that was a member at the call and is Joined with nothing
\* pending has exactly one frame of it, {type: notification, notification:
\* data}; and a connection outside that group has none, written or queued
C26_TaskPublishesAndReturns ==
    /\ \A r \in returned :
          IF r.value
          THEN \E p \in TaskEvents :
                  /\ p.id = r.pub /\ p.by = 0
                  /\ p.room = room_group_name("notifications", Str(r.user_id))
          ELSE r.pub = 0
    /\ \A p \in TaskEvents :
          /\ Cardinality({r \in returned : r.pub = p.id /\ r.value}) = 1
          /\ \A c \in Conns :
                /\ \A i \in FramesOfPublish(c, p) :
                      sent[c][i].data = [type |-> "notification",
                                         notification |-> p.msg.notification]
                /\ (c \in p.members /\ phase[c] = "Joined" /\ chq[c] = <<>>)
                      => Cardinality(FramesOfPublish(c, p)) = 1
                /\ (c \notin p.members \/ Room(c) # p.room)
                      => Copies(sent[c], p.id) + Copies(chq[c], p.id) = 0

\* one run of the task returned true and its notification was written to a
\* Joined member of the user's group, and one run returned false
C26_Witness ==
    /\ \E r \in returned : ~r.value
    /\ \E r \in returned : \E c \in Conns :
          /\ r.value /\ phase[c] = "Joined" /\ Copies(sent[c], r.pub) = 1
          /\ Str(scope[c].user.id) = Str(r.user_id)

\* C27: every member of a notifications group is a connection whose scope
\* user is authenticated and whose group is the one named by that user's
\* id; and every frame of a task publish for user U written or queued to a
\* connection is on a connection authenticated as U
C27_MembersAreOwners ==
    /\ \A g \in groups : scope[g[2]].kind = "notifications" =>
          /\ scope[g[2]].user.auth
          /\ g[1] = room_group_name("notifications", Str(scope[g[2]].user.id))
    /\ \A r \in returned : \A c \in Conns :
          (r.value /\ Copies(sent[c], r.pub) + Copies(chq[c], r.pub) > 0) =>
              scope[c].user.auth /\ scope[c].user.id = r.user_id

\* a notification for user 1 was written to the connection of user 1 while
\* the Joined connection of user 2 got nothing
C27_Witness ==
    \E c, d \in Conns : \E r \in returned :
        /\ r.value /\ r.user_id = 1
        /\ scope[c].user.auth /\ scope[c].user.id = 1 /\ Copies(sent[c], r.pub) = 1
        /\ phase[d] = "Joined" /\ scope[d].user.auth /\ scope[d].user.id = 2
        /\ <<Room(d), d>> \in groups /\ Len(sent[d]) = 1

\* C28: a notification row that differs from the one the store started
\* with was named by a mark_read frame handled on a connection
\* authenticated as the row's recipient
C28_OnlyOwnNotificationsChanged ==
    \A n \in DOMAIN notifications :
        notifications[n] # NotificationRows[n] =>
            \E c \in Conns :
                /\ scope[c].kind = "notifications" /\ scope[c].user.auth
                /\ scope[c].user.id = notifications[n].recipient
                /\ \E i \in 1..Len(handled[c]) : MarkRead(handled[c][i], n)

\* a handled frame that names a sender or a group other than those of c
NamesOther(c, f) ==
    /\ TextFrame(f)
    /\ "user_id" \in DOMAIN f.obj /\ f.obj.user_id # JNum(scope[c].user.id)
    /\ "group_id" \in DOMAIN f.obj /\ f.obj.group_id # JNum(IntOf(scope[c].token).val)

\* C29: every chat_message publish carries the id and the full name of the
\* user its publishing connection authenticated as and goes to the room of
\* that connection's route, and the row it names has that user as sender
\* and that route's group as group, whatever fields the frame carried
C29_SenderFromScope ==
    \A p \in ChatEvents :
        /\ p.by \in Conns
        /\ scope[p.by].user.auth
        /\ p.msg.message.user_id = scope[p.by].user.id
        /\ p.msg.message.username = get_full_name(scope[p.by].user.id)
        /\ p.room = Room(p.by)
        /\ p.msg.message.id \in 1..Len(chatMessages)
        /\ chatMessages[p.msg.message.id].sender_id = scope[p.by].user.id
        /\ Str(chatMessages[p.msg.message.id].group_id) = scope[p.by].token

\* a frame naming user 3 and group 2, sent by user 2 in room 1, was
\* persisted and published with user 2 and group 1
C29_Witness ==
    \E p \in ChatEvents : \E i \in 1..Len(handled[p.by]) :
        /\ NamesOther(p.by, handled[p.by][i])
        /\ handled[p.by][i].obj.message.chars = p.msg.message.message
        /\ scope[p.by].user.id = 2
        /\ chatMessages[p.msg.message.id].sender_id = 2
        /\ chatMessages[p.msg.message.id].group_id = 1

\* well-formed JSON of a shape receive does not expect: no object at the
\* top, or a message that is no string
UnexpectedShape(f) ==
    \/ f.json = "array"
    \/ /\ f.json = "object"
       /\ "message" \in DOMAIN f.obj
       /\ f.obj.message.t # "str"

\* C30: receive of a Joined chat or notifications connection that takes a
\* frame of an unexpected shape leaves the connection Joined, creates and
\* changes no row, and publishes nothing
C30_UnexpectedShapeTolerated ==
    [][\A c \in Conns :
          ((NotifReceive(c) \/ ChatReceive(c)) /\ phase[c] = "Joined"
              /\ UnexpectedShape(Head(appq[c]).frame)) =>
              /\ phase'[c] = "Joined"
              /\ chatMessages' = chatMessages
              /\ notifications' = notifications
              /\ publog' = publog]_vars

====
